---- MODULE Spec2Model ----
(***************************************************************************)
(* Model of claude-context-monitor: the hook script                        *)
(* scripts/context-monitor.py (ContextMonitor, main) with the transcript   *)
(* parser shared with scripts/context-monitor-gui.py, the Notifier of      *)
(* scripts/notifier.py, and the desktop monitor of                         *)
(* scripts/context-monitor-gui.py.                                         *)
(*                                                                         *)
(* Representation.  A JSON object (Python dict) is a TLA+ record holding   *)
(* exactly the keys that are present, so d.get(k, default) is _get below.  *)
(* JSON null and JSON values that are not objects are the one-key records  *)
(* JNull and JScalar.  A float is the exact rational it stands for, kept   *)
(* as a reduced fraction [num, den]: 80.0 is [num |-> 80, den |-> 1] and   *)
(* 79.9 is [num |-> 799, den |-> 10].                                      *)
(***************************************************************************)
EXTENDS Integers, Sequences, FiniteSets, TLC

VARIABLES
    transcript,     \* ParseSpec: the transcript file given to parse_transcript
    result,         \* ParseSpec: what parse_transcript handed to its caller
    pc,             \* per hook process: where it stands in main / check_and_notify
    hook_input,     \* per hook process: the JSON value read from stdin
    usage_info,     \* per hook process: the snapshot parse_transcript returned
    exited,         \* the hook processes that have ended: exit code, and the
                    \* source line of the return or sys.exit that ended them
    outFile,        \* <cwd>/<output_file>
    marker,         \* <cwd>/.claude/.context-threshold-hit
    notifier_calls, \* per hook process: its call of Notifier.send, if any
    config_files,   \* ConfigSpec: what the four candidate config paths hold
    monitor,        \* ConfigSpec: the ContextMonitor that __init__ built
    system,         \* NotifierSpec: Notifier.system, platform.system()
    is_wsl,         \* NotifierSpec: Notifier.is_wsl
    commands,       \* NotifierSpec: how subprocess.run ends for each command
    attempted,      \* NotifierSpec: the commands send has run, in order
    sent,           \* NotifierSpec: what Notifier.send returned
    window,         \* GUI: "open" from __init__ to _on_closing, then "closed"
    config_file,    \* GUI: what the file at config_path holds
    gui_config,     \* GUI: ContextMonitorGUI.config
    last_usage,     \* GUI: ContextMonitorGUI.last_usage
    labels,         \* GUI: what percentage_label, tokens_label and
                    \* status_label show
    observer,       \* GUI: a watchdog Observer is running
    polling_active, \* GUI: ContextMonitorGUI._polling_active
    elapsed,        \* GUI: time.time() - TranscriptWatcher.last_modified, in
                    \* ticks, counted up to DebounceTicks + 1
    events,         \* GUI: modified events the observer has yet to dispatch
    after_queue,    \* GUI: _update_display calls scheduled by root.after(0, ...)
    poll_wait       \* GUI: ticks until the timer of _poll_loop is due

(***************************************************************************)
(* Bounds of the model.                                                    *)
(***************************************************************************)
MaxLines == 3     \* lines in a transcript file
MaxTs == 3        \* timestamps range over 0..MaxTs
NumProcs == 2     \* hook processes (one per hook event) on the same cwd
MaxWrites == 3    \* entries appended to the transcript the GUI monitors

(***************************************************************************)
(* Python values.                                                          *)
(***************************************************************************)
None == [none |-> TRUE]           \* Python None as a return value
Unset == [unset |-> TRUE]         \* no call has returned yet
Raise == [raised |-> TRUE]        \* an exception leaving an expression
Ok(v) == [raised |-> FALSE, value |-> v]   \* the expression's value
EmptyDict == <<>>                 \* {}
JNull == [null |-> TRUE]          \* JSON null
JScalar == [scalar |-> TRUE]      \* a JSON number, string or list

IsDict(v) == "null" \notin DOMAIN v /\ "scalar" \notin DOMAIN v
IsNone(v) == "none" \in DOMAIN v

\* d.get(k, default)
_get(d, k, default) == IF k \in DOMAIN d THEN d[k] ELSE default

RECURSIVE GCD(_, _)
GCD(a, b) == IF b = 0 THEN a ELSE GCD(b, a % b)

\* the rational n/d as a reduced fraction
Frac(n, d) ==
    LET g == GCD(n, d) IN
    IF g = 0 THEN [num |-> 0, den |-> 1] ELSE [num |-> n \div g, den |-> d \div g]

(***************************************************************************)
(* DEFAULT_CONFIG, context-monitor.py lines 21-29.  threshold 0.80 is the  *)
(* fraction 4/5.                                                           *)
(***************************************************************************)
DEFAULT_CONFIG ==
    [ threshold |-> [num |-> 4, den |-> 5],
      output_file |-> "claude.md",
      notification_enabled |-> TRUE,
      max_context_tokens |-> 200000,
      log_enabled |-> TRUE ]

(***************************************************************************)
(* Transcript lines.  A line is text that json.loads rejects               *)
(* ("undecodable"), bytes that are not valid in the file's encoding        *)
(* ("badenc"), or text that decodes to a JSON value ("json").              *)
(***************************************************************************)
UsageA == [input_tokens |-> 150000, cache_read_input_tokens |-> 10000,
           cache_creation_input_tokens |-> 0]                \* 160000, 80.0%
UsageB == [input_tokens |-> 149800, cache_read_input_tokens |-> 10000]
                                                             \* 159800, 79.9%
UsageC == [cache_creation_input_tokens |-> 2000]             \*   2000,  1.0%
UsageD == [input_tokens |-> 190000,
           cache_creation_input_tokens |-> 5000]             \* 195000, 97.5%

JsonLine(v) == [kind |-> "json", value |-> v]
Undecodable == [kind |-> "undecodable"]
BadEncoding == [kind |-> "badenc"]

MainEntry(ts, u) == JsonLine([timestamp |-> ts, message |-> [usage |-> u]])

Lines ==
    \* main-chain entries with usage, some with the flags spelled out
    { MainEntry(ts, u) : ts \in 1..MaxTs, u \in {UsageA, UsageB} }
    \cup
    { JsonLine([timestamp |-> 1, isSidechain |-> FALSE, isApiErrorMessage |-> FALSE,
                message |-> [usage |-> UsageC]]),
      \* excluded entries carrying the greatest timestamp
      JsonLine([timestamp |-> MaxTs, isSidechain |-> TRUE,
                message |-> [usage |-> UsageD]]),
      JsonLine([timestamp |-> MaxTs, isApiErrorMessage |-> TRUE,
                message |-> [usage |-> UsageD]]),
      JsonLine([message |-> [usage |-> UsageD]]),                 \* no timestamp
      JsonLine([timestamp |-> 0, message |-> [usage |-> UsageD]]),
      JsonLine([timestamp |-> MaxTs, message |-> [usage |-> JNull]]),
      JsonLine([timestamp |-> MaxTs]),                            \* no message
      \* values that decode but are not what the filter expects
      JsonLine([timestamp |-> MaxTs, message |-> JScalar]),
      JsonLine([timestamp |-> MaxTs, message |-> JNull]),
      JsonLine(JScalar),
      JsonLine(JNull),
      Undecodable,
      BadEncoding }

RECURSIVE SeqsUpTo(_, _)
SeqsUpTo(S, n) ==
    IF n = 0 THEN { <<>> }
    ELSE LET shorter == SeqsUpTo(S, n - 1) IN
         shorter \cup { Append(s, x) : s \in { t \in shorter : Len(t) = n - 1 }, x \in S }

\* the state of the file at transcript_path
Missing == [file |-> "missing"]
Unreadable == [file |-> "unreadable"]
Readable(lines) == [file |-> "readable", lines |-> lines]

Transcripts == { Missing, Unreadable } \cup { Readable(l) : l \in SeqsUpTo(Lines, MaxLines) }

(***************************************************************************)
(* ContextMonitor.parse_transcript, context-monitor.py lines 89-144        *)
(* (ContextMonitorGUI._parse_transcript, lines 613-663, is the same code). *)
(***************************************************************************)

\* ReadEntries without the except clause of line 103: a line json.loads
\* rejects ends the loop.
RECURSIVE ReadEntriesNoSkip(_)
ReadEntriesNoSkip(lines) ==
    IF lines = <<>> THEN Ok(<<>>)
    ELSE LET line == Head(lines) IN
         IF line.kind # "json" THEN Raise
         ELSE LET rest == ReadEntriesNoSkip(Tail(lines)) IN
              IF rest.raised THEN Raise
              ELSE Ok(<<line.value>> \o rest.value)

\* lines 97-104: the read loop.  Decoding the bytes happens in the file
\* iterator, outside the inner try, so a UnicodeDecodeError leaves the loop;
\* json.JSONDecodeError is caught per line.
RECURSIVE ReadEntries(_)
ReadEntries(lines) ==
    IF lines = <<>> THEN Ok(<<>>)
    ELSE LET line == Head(lines) IN
         IF line.kind = "badenc" THEN Raise
         ELSE LET rest == ReadEntries(Tail(lines)) IN
              IF rest.raised THEN Raise
              ELSE IF line.kind = "undecodable" THEN rest
              ELSE Ok(<<line.value>> \o rest.value)

\* EntryFilter dropping, instead of raising on, an entry that is not a dict
\* or whose message is not a dict
EntryFilterLenient(entry) ==
    IF ~IsDict(entry) THEN Ok(FALSE)
    ELSE LET message == _get(entry, "message", EmptyDict) IN
         IF ~IsDict(message) THEN Ok(FALSE)
         ELSE Ok(/\ ~IsNone(_get(message, "usage", None))
                 /\ _get(message, "usage", None) # JNull
                 /\ ~_get(entry, "isSidechain", FALSE)
                 /\ ~_get(entry, "isApiErrorMessage", FALSE)
                 /\ _get(entry, "timestamp", 0) # 0)

\* lines 109-112: the filter condition for one entry; .get on a value that
\* is not a dict raises AttributeError.
EntryFilter(entry) ==
    IF ~IsDict(entry) THEN Raise
    ELSE LET message == _get(entry, "message", EmptyDict) IN
         IF ~IsDict(message) THEN Raise
         ELSE Ok(/\ ~IsNone(_get(message, "usage", None))
                 /\ _get(message, "usage", None) # JNull
                 /\ ~_get(entry, "isSidechain", FALSE)
                 /\ ~_get(entry, "isApiErrorMessage", FALSE)
                 /\ _get(entry, "timestamp", 0) # 0)

\* lines 107-113: the list comprehension
RECURSIVE FilterValid(_)
FilterValid(entries) ==
    IF entries = <<>> THEN Ok(<<>>)
    ELSE LET keep == EntryFilter(Head(entries)) IN
         IF keep.raised THEN Raise
         ELSE LET rest == FilterValid(Tail(entries)) IN
              IF rest.raised THEN Raise
              ELSE IF keep.value THEN Ok(<<Head(entries)>> \o rest.value) ELSE rest

\* LatestEntry taking the entry appended last instead of the greatest timestamp
LastAppended(valid) == valid[Len(valid)]

\* LatestEntry keeping the last of the entries with the greatest timestamp
RECURSIVE LatestOfTiesLast(_)
LatestOfTiesLast(valid) ==
    IF Len(valid) = 1 THEN valid[1]
    ELSE LET best == LatestOfTiesLast(Tail(valid)) IN
         IF _get(Head(valid), "timestamp", 0) > _get(best, "timestamp", 0)
         THEN Head(valid) ELSE best

\* line 120: max(valid_entries, key=timestamp); Python's max returns the
\* first of the maximal elements.
RECURSIVE LatestEntry(_)
LatestEntry(valid) ==
    IF Len(valid) = 1 THEN valid[1]
    ELSE LET best == LatestEntry(Tail(valid)) IN
         IF _get(Head(valid), "timestamp", 0) >= _get(best, "timestamp", 0)
         THEN Head(valid) ELSE best

\* TotalTokens leaving out the cache-creation tokens
TotalTokensNoCreation(usage) ==
    _get(usage, "input_tokens", 0) + _get(usage, "cache_read_input_tokens", 0)

\* line 128
TotalTokens(usage) ==
    _get(usage, "input_tokens", 0)
    + _get(usage, "cache_read_input_tokens", 0)
    + _get(usage, "cache_creation_input_tokens", 0)

\* lines 121-140
Snapshot(usage, config) ==
    LET total_tokens == TotalTokens(usage)
        max_tokens == config.max_context_tokens
    IN [ total_tokens |-> total_tokens,
         percentage |-> Frac(total_tokens * 100, max_tokens),
         input_tokens |-> _get(usage, "input_tokens", 0),
         cache_read_tokens |-> _get(usage, "cache_read_input_tokens", 0),
         cache_creation_tokens |-> _get(usage, "cache_creation_input_tokens", 0) ]

\* lines 92-140: the body of the outer try
ParseBody(file, config) ==
    IF file = Missing THEN Ok(None)
    ELSE IF file = Unreadable THEN Raise
    ELSE LET entries == ReadEntries(file.lines) IN
         IF entries.raised THEN Raise
         ELSE LET valid_entries == FilterValid(entries.value) IN
              IF valid_entries.raised THEN Raise
              ELSE IF valid_entries.value = <<>> THEN Ok(None)
              ELSE LET latest_entry == LatestEntry(valid_entries.value)
                       usage == _get(_get(latest_entry, "message", EmptyDict),
                                     "usage", EmptyDict)
                   IN Ok(Snapshot(usage, config))

\* parse_transcript without the except clause of line 142
ParseUncaught(file, config) ==
    LET r == ParseBody(file, config) IN
    IF r.raised THEN Raise ELSE r.value

\* lines 91, 142-144: except Exception: log and return None
parse_transcript(file, config) ==
    LET r == ParseBody(file, config) IN
    IF r.raised THEN None ELSE r.value

(***************************************************************************)
(* The parser on its own: any transcript file, parsed once.                *)
(***************************************************************************)
Procs == 1..NumProcs

\* the state of the parts a specification leaves aside
cfgVars == <<config_files, monitor>>
ConfigIdle == config_files = <<>> /\ monitor = Unset
ntfVars == <<system, is_wsl, commands, attempted, sent>>
NotifierIdle ==
    /\ system = ""
    /\ is_wsl = FALSE
    /\ commands = <<>>
    /\ attempted = <<>>
    /\ sent = Unset
guiVars == <<window, config_file, gui_config, last_usage, labels, observer,
             polling_active, elapsed, events, after_queue, poll_wait>>
GuiIdle ==
    /\ window = "none"
    /\ config_file = Unset
    /\ gui_config = Unset
    /\ last_usage = Unset
    /\ labels = Unset
    /\ observer = FALSE
    /\ polling_active = FALSE
    /\ elapsed = 0
    /\ events = 0
    /\ after_queue = 0
    /\ poll_wait = 0
otherVars == <<cfgVars, ntfVars, guiVars>>
OthersIdle == ConfigIdle /\ NotifierIdle /\ GuiIdle

HookIdle ==
    /\ pc = [p \in Procs |-> "idle"]
    /\ hook_input = [p \in Procs |-> Unset]
    /\ usage_info = [p \in Procs |-> Unset]
    /\ exited = <<>>
    /\ outFile = [exists |-> FALSE, content |-> <<>>]
    /\ marker = [exists |-> FALSE]
    /\ notifier_calls = [p \in Procs |-> "none"]

hookVars == <<pc, hook_input, usage_info, exited, outFile, marker, notifier_calls>>
vars == <<transcript, result, hookVars, otherVars>>

InitParse ==
    /\ transcript \in Transcripts
    /\ result = Unset
    /\ HookIdle
    /\ OthersIdle

Parse ==
    /\ result = Unset
    /\ result' = parse_transcript(transcript, DEFAULT_CONFIG)
    /\ UNCHANGED <<transcript, hookVars, otherVars>>

ParseSpec == InitParse /\ [][Parse]_vars

(***************************************************************************)
(* Properties of the parser, stated on the lines of the file rather than   *)
(* through the parser's own filter.                                        *)
(***************************************************************************)
IsSnapshot(r) == "total_tokens" \in DOMAIN r
Returned == result # Unset
FileLines == IF transcript.file = "readable" THEN transcript.lines ELSE <<>>
RemoveAt(s, i) == SubSeq(s, 1, i - 1) \o SubSeq(s, i + 1, Len(s))

\* a valid entry as the data model words it: usage non-null, isSidechain
\* false, isApiErrorMessage false, timestamp present
ValidLine(line) ==
    /\ line.kind = "json"
    /\ IsDict(line.value)
    /\ "timestamp" \in DOMAIN line.value
    /\ "message" \in DOMAIN line.value
    /\ IsDict(line.value.message)
    /\ "usage" \in DOMAIN line.value.message
    /\ line.value.message.usage # JNull
    /\ ("isSidechain" \in DOMAIN line.value => ~line.value.isSidechain)
    /\ ("isApiErrorMessage" \in DOMAIN line.value => ~line.value.isApiErrorMessage)

Field(usage, k) == IF k \in DOMAIN usage THEN usage[k] ELSE 0

\* C4: parse_transcript returns None, and raises nothing, when the file is
\* missing, cannot be read, or holds no valid entry.
C4_AbsentWithoutRaising ==
    Returned =>
        /\ "raised" \notin DOMAIN result
        /\ (\/ transcript = Missing
            \/ transcript = Unreadable
            \/ \A i \in DOMAIN FileLines : ~ValidLine(FileLines[i]))
           => IsNone(result)

C4_Witness == transcript = Unreadable /\ Returned /\ IsNone(result)

\* C5: a snapshot is that of a valid entry whose timestamp no valid entry
\* exceeds, wherever the entry stands in the file; a sidechain or API-error
\* entry is never the one selected.  In a file of objects and undecodable
\* lines, a valid entry with a non-zero timestamp yields a snapshot.
C5_LatestValidEntry ==
    Returned =>
        /\ IsSnapshot(result) =>
             \E i \in DOMAIN FileLines :
                /\ ValidLine(FileLines[i])
                /\ \A j \in DOMAIN FileLines :
                      ValidLine(FileLines[j])
                        => FileLines[j].value.timestamp <= FileLines[i].value.timestamp
                /\ \A k \in {"input_tokens", "cache_read_input_tokens",
                              "cache_creation_input_tokens"} :
                      Field(FileLines[i].value.message.usage, k)
                        = (CASE k = "input_tokens" -> result.input_tokens
                             [] k = "cache_read_input_tokens" -> result.cache_read_tokens
                             [] OTHER -> result.cache_creation_tokens)
        /\ ( /\ transcript.file = "readable"
             /\ \A i \in DOMAIN FileLines :
                   \/ FileLines[i] = Undecodable
                   \/ /\ FileLines[i].kind = "json"
                      /\ IsDict(FileLines[i].value)
                      /\ IsDict(_get(FileLines[i].value, "message", EmptyDict))
             /\ \E i \in DOMAIN FileLines :
                   ValidLine(FileLines[i]) /\ FileLines[i].value.timestamp > 0 )
           => IsSnapshot(result)

\* the excluded entry holds the greatest timestamp and stands between two
\* valid entries listed out of timestamp order
C5_Witness ==
    /\ transcript = Readable(<<MainEntry(2, UsageB),
                               JsonLine([timestamp |-> MaxTs, isSidechain |-> TRUE,
                                         message |-> [usage |-> UsageD]]),
                               MainEntry(1, UsageA)>>)
    /\ IsSnapshot(result)
    /\ result.input_tokens = 149800

\* C6: total_tokens is the sum of the three token fields of the selected
\* entry, an absent field counting 0, and percentage is
\* 100 * total_tokens / max_context_tokens: 150000 + 10000 + 0 of 200000 is
\* 160000 and 80.0.
C6_TotalAndPercentage ==
    (Returned /\ IsSnapshot(result)) =>
        /\ \E i \in DOMAIN FileLines :
              /\ ValidLine(FileLines[i])
              /\ LET usage == FileLines[i].value.message.usage IN
                 /\ result.input_tokens = Field(usage, "input_tokens")
                 /\ result.cache_read_tokens = Field(usage, "cache_read_input_tokens")
                 /\ result.cache_creation_tokens = Field(usage, "cache_creation_input_tokens")
                 /\ result.total_tokens
                      = Field(usage, "input_tokens") + Field(usage, "cache_read_input_tokens")
                        + Field(usage, "cache_creation_input_tokens")
        /\ result.percentage.den > 0
        /\ result.percentage.num * DEFAULT_CONFIG.max_context_tokens
             = 100 * result.total_tokens * result.percentage.den
        /\ transcript = Readable(<<MainEntry(1, UsageA)>>)
             => /\ result.total_tokens = 160000
                /\ result.percentage = [num |-> 80, den |-> 1]

\* two of the three fields are absent from the selected entry
C6_Witness ==
    /\ transcript = Readable(<<JsonLine([timestamp |-> 1, isSidechain |-> FALSE,
                                         isApiErrorMessage |-> FALSE,
                                         message |-> [usage |-> UsageC]])>>)
    /\ IsSnapshot(result)
    /\ result.total_tokens = 2000
    /\ result.percentage = [num |-> 1, den |-> 1]

\* C7: a line that json.loads rejects is skipped wherever it stands: the
\* result is the result for the file without that line.
C7_UndecodableLineSkipped ==
    Returned =>
        \A i \in DOMAIN FileLines :
            FileLines[i] = Undecodable
              => result = parse_transcript(Readable(RemoveAt(FileLines, i)), DEFAULT_CONFIG)

C7_Witness ==
    /\ transcript = Readable(<<MainEntry(1, UsageA), Undecodable, MainEntry(2, UsageB)>>)
    /\ IsSnapshot(result)
    /\ result.total_tokens = 159800

\* C8: a line with invalid character encoding is skipped: the result is the
\* result for the file without that line.
C8_BadEncodingSkipped ==
    Returned =>
        \A i \in DOMAIN FileLines :
            FileLines[i] = BadEncoding
              => result = parse_transcript(Readable(RemoveAt(FileLines, i)), DEFAULT_CONFIG)

\* a line that decodes to a value that is not an object, or to an object
\* whose message is present and not an object
NotAnObjectLine(line) ==
    /\ line.kind = "json"
    /\ \/ "scalar" \in DOMAIN line.value
       \/ "null" \in DOMAIN line.value
       \/ /\ "message" \in DOMAIN line.value
          /\ \/ "scalar" \in DOMAIN line.value.message
             \/ "null" \in DOMAIN line.value.message

\* the valid lines whose timestamp no valid line exceeds
TiedAtMax ==
    {i \in DOMAIN FileLines :
        /\ ValidLine(FileLines[i])
        /\ \A j \in DOMAIN FileLines :
              ValidLine(FileLines[j])
                => FileLines[j].value.timestamp <= FileLines[i].value.timestamp}
ReportsLine(i) ==
    LET usage == FileLines[i].value.message.usage IN
    /\ result.input_tokens = Field(usage, "input_tokens")
    /\ result.cache_read_tokens = Field(usage, "cache_read_input_tokens")
    /\ result.cache_creation_tokens = Field(usage, "cache_creation_input_tokens")

\* C17 as stated: when several valid entries share the greatest timestamp,
\* the snapshot is that of the one that stands last in the file.
C17_LastOfTiedEntriesWins ==
    (Returned /\ IsSnapshot(result) /\ Cardinality(TiedAtMax) > 1)
    => ReportsLine(CHOOSE i \in TiedAtMax : \A j \in TiedAtMax : j <= i)

\* C17, amended: when several valid entries share the greatest timestamp,
\* the snapshot is that of the one that stands first in the file; the
\* result is a function of the file's lines.
C17_FirstOfTiedEntriesWins ==
    (Returned /\ IsSnapshot(result) /\ Cardinality(TiedAtMax) > 1)
    => ReportsLine(CHOOSE i \in TiedAtMax : \A j \in TiedAtMax : i <= j)

\* two entries with the same timestamp and different usage: the first one's
\* usage is reported
C17_Witness ==
    /\ transcript = Readable(<<MainEntry(1, UsageA), MainEntry(2, UsageB), MainEntry(2, UsageA)>>)
    /\ IsSnapshot(result)
    /\ result.total_tokens = 159800

(***************************************************************************)
(* The hook: main() and ContextMonitor.check_and_notify, one process per   *)
(* hook event, all on the same cwd.  A process is single-threaded; its     *)
(* steps are cut at the file-system operations, which is where processes   *)
(* started by overlapping hook events interleave.                          *)
(***************************************************************************)

\* The files hook inputs point to.
Files ==
    [ missing |-> Missing,
      novalid |-> Readable(<<Undecodable, JsonLine([timestamp |-> 1])>>),
      below   |-> Readable(<<MainEntry(1, UsageA), MainEntry(2, UsageB)>>),
      at      |-> Readable(<<MainEntry(1, UsageA)>>),
      above   |-> Readable(<<MainEntry(2, UsageA), Undecodable,
                             JsonLine([timestamp |-> 3, message |-> [usage |-> UsageD]])>>) ]

SessionOf(p) == <<"session", p>>

\* what a hook process finds on stdin (line 273: json.loads(sys.stdin.read()))
StdinInvalid == [kind |-> "undecodable"]
Stdins(p) ==
    { StdinInvalid,
      JsonLine(JScalar),
      JsonLine([session_id |-> SessionOf(p), cwd |-> "cwd"]) }
    \cup
    { JsonLine([session_id |-> SessionOf(p), cwd |-> "cwd", transcript_path |-> path])
        : path \in DOMAIN Files }

\* the candidate config files of _load_config, in search order (lines 46-59)
ConfigAbsent == [exists |-> FALSE]
ConfigObject(d) == [exists |-> TRUE, json |-> TRUE, value |-> d]
ConfigMalformed == [exists |-> TRUE, json |-> FALSE]
ConfigEnvs ==
    { <<ConfigAbsent, ConfigAbsent, ConfigAbsent, ConfigAbsent>>,
      <<ConfigAbsent, ConfigObject([notification_enabled |-> FALSE]), ConfigAbsent, ConfigAbsent>>,
      <<ConfigAbsent, ConfigAbsent, ConfigAbsent, ConfigMalformed>> }

\* ContextMonitor._log, lines 74-87: reads self.config first; a failure to
\* write the log is caught inside.
_log(self) == IF "config" \in DOMAIN self THEN Ok(None) ELSE Raise

\* dict.update
Update(d, u) == [k \in DOMAIN d \cup DOMAIN u |-> IF k \in DOMAIN u THEN u[k] ELSE d[k]]

\* ContextMonitor._load_config, lines 41-72, called from __init__ (line 37)
\* before self.config is assigned; self is the object so far.
RECURSIVE LoadFrom(_, _, _)
LoadFrom(self, config, search_paths) ==
    IF search_paths = <<>> THEN Ok(config)
    ELSE LET path == Head(search_paths) IN
         IF ~path.exists THEN LoadFrom(self, config, Tail(search_paths))
         ELSE LET loaded == IF path.json THEN Update(config, path.value) ELSE config
                  \* line 67 after a load, line 70 after a failed one
                  logged == _log(self)
                  \* the except clause of line 69 catches what line 67 raised
                  handled == IF path.json /\ logged.raised THEN _log(self) ELSE logged
              IN IF handled.raised THEN Raise
                 ELSE IF path.json THEN Ok(loaded)
                 ELSE LoadFrom(self, config, Tail(search_paths))

_load_config(self, search_paths) == LoadFrom(self, DEFAULT_CONFIG, search_paths)

\* ContextMonitor.__init__, lines 35-39
NewContextMonitor(search_paths) ==
    LET config == _load_config(EmptyDict, search_paths) IN
    IF config.raised THEN Raise
    ELSE Ok([config |-> config.value, notifier |-> config.value.notification_enabled])

\* Every process that gets past __init__ holds this object.
Monitor(p) == NewContextMonitor(<<ConfigAbsent, ConfigAbsent, ConfigAbsent, ConfigAbsent>>).value

(***************************************************************************)
(* Construction of the hook's ContextMonitor on its own: any content of    *)
(* the four candidate paths, one call of ContextMonitor().                 *)
(***************************************************************************)
\* what a candidate path may hold
ConfigFiles ==
    { ConfigAbsent,
      ConfigMalformed,
      ConfigObject([notification_enabled |-> FALSE]),
      ConfigObject([threshold |-> [num |-> 1, den |-> 2], max_context_tokens |-> 100000]) }

InitConfig ==
    /\ config_files \in [1..4 -> ConfigFiles]
    /\ monitor = Unset
    /\ transcript = Missing
    /\ result = Unset
    /\ HookIdle
    /\ NotifierIdle
    /\ GuiIdle

\* main, line 276: monitor = ContextMonitor()
Construct ==
    /\ monitor = Unset
    /\ monitor' = NewContextMonitor(config_files)
    /\ UNCHANGED <<config_files, transcript, result, hookVars, ntfVars, guiVars>>

ConfigSpec == InitConfig /\ [][Construct]_vars

(***************************************************************************)
(* Notifier, notifier.py: one call of send on any platform, each command   *)
(* it may run ending in one of the ways subprocess.run can end.            *)
(***************************************************************************)
\* how subprocess.run(..., timeout=5, check=False) ends: return code 0, a
\* non-zero return code, FileNotFoundError, TimeoutExpired, another OSError
Outcomes == {"zero", "nonzero", "missing", "timeout", "oserror"}

\* notifier.py lines 71-75
powershell_paths ==
    << "/mnt/c/Windows/System32/WindowsPowerShell/v1.0/powershell.exe",
       "powershell.exe",
       "C:/Windows/System32/WindowsPowerShell/v1.0/powershell.exe" >>

\* what a _notify_* method hands back: a return value or an exception,
\* with the commands it ran
Returns(value, ran) == [raised |-> FALSE, value |-> value, attempted |-> ran]
Raises(ran) == [raised |-> TRUE, value |-> FALSE, attempted |-> ran]
After(cmd, r) == [r EXCEPT !.attempted = <<cmd>> \o @]

\* _notify_windows, lines 77-90: the loop over powershell_paths
RECURSIVE TryPaths(_, _)
TryPaths(paths, cmds) ==
    IF paths = <<>> THEN Returns(FALSE, <<>>)
    ELSE LET ps_path == Head(paths) IN
         CASE cmds[ps_path] = "zero" -> Returns(TRUE, <<ps_path>>)
           [] cmds[ps_path] = "oserror" -> Raises(<<ps_path>>)
           [] OTHER -> After(ps_path, TryPaths(Tail(paths), cmds))

_notify_windows(cmds) == TryPaths(powershell_paths, cmds)

\* lines 92-101
_notify_macos(cmds) ==
    CASE cmds["osascript"] = "zero" -> Returns(TRUE, <<"osascript">>)
      [] cmds["osascript"] = "nonzero" -> Returns(FALSE, <<"osascript">>)
      [] OTHER -> Raises(<<"osascript">>)

\* lines 117-138
_notify_linux_dbus(cmds) ==
    CASE cmds["dbus-send"] = "zero" -> Returns(TRUE, <<"dbus-send">>)
      [] cmds["dbus-send"] \in {"nonzero", "missing"} -> Returns(FALSE, <<"dbus-send">>)
      [] OTHER -> Raises(<<"dbus-send">>)

\* lines 103-115: only FileNotFoundError leads to the dbus fallback
_notify_linux(cmds) ==
    CASE cmds["notify-send"] = "zero" -> Returns(TRUE, <<"notify-send">>)
      [] cmds["notify-send"] = "nonzero" -> Returns(FALSE, <<"notify-send">>)
      [] cmds["notify-send"] = "missing" -> After("notify-send", _notify_linux_dbus(cmds))
      [] OTHER -> Raises(<<"notify-send">>)

\* lines 40-48: the body of the try of send
SendBody(sys, wsl, cmds) ==
    IF wsl \/ sys = "Windows" THEN _notify_windows(cmds)
    ELSE IF sys = "Darwin" THEN _notify_macos(cmds)
    ELSE IF sys = "Linux" THEN _notify_linux(cmds)
    ELSE Returns(FALSE, <<>>)

\* send without the except clause of line 49
SendUncaught(sys, wsl, cmds) == SendBody(sys, wsl, cmds)

\* Notifier.send, lines 28-51
send(sys, wsl, cmds) ==
    LET r == SendBody(sys, wsl, cmds) IN
    IF r.raised THEN Returns(FALSE, r.attempted) ELSE r

\* the platforms, and the commands whose outcome matters on each
Platforms ==
    { [system |-> "Windows", is_wsl |-> FALSE],
      [system |-> "Linux", is_wsl |-> TRUE],
      [system |-> "Linux", is_wsl |-> FALSE],
      [system |-> "Darwin", is_wsl |-> FALSE],
      [system |-> "FreeBSD", is_wsl |-> FALSE] }
CommandsOf(platform) ==
    IF platform.is_wsl \/ platform.system = "Windows"
    THEN {powershell_paths[i] : i \in DOMAIN powershell_paths}
    ELSE IF platform.system = "Darwin" THEN {"osascript"}
    ELSE IF platform.system = "Linux" THEN {"notify-send", "dbus-send"}
    ELSE {}

InitNotifier ==
    /\ \E platform \in Platforms :
         /\ system = platform.system
         /\ is_wsl = platform.is_wsl
         /\ commands \in [CommandsOf(platform) -> Outcomes]
    /\ attempted = <<>>
    /\ sent = Unset
    /\ transcript = Missing
    /\ result = Unset
    /\ HookIdle
    /\ ConfigIdle
    /\ GuiIdle

\* check_and_notify, line 248: self.notifier.send(title, message)
Send ==
    /\ sent = Unset
    /\ LET r == send(system, is_wsl, commands) IN
       /\ sent' = [raised |-> r.raised, value |-> r.value]
       /\ attempted' = r.attempted
    /\ UNCHANGED <<system, is_wsl, commands, transcript, result, hookVars, cfgVars, guiVars>>

NotifierSpec == InitNotifier /\ [][Send]_vars

Exit(p, code, line) ==
    /\ pc' = [pc EXCEPT ![p] = "done"]
    /\ exited' = exited @@ (p :> [code |-> code, line |-> line])

Goto(p, label) ==
    /\ pc' = [pc EXCEPT ![p] = label]
    /\ UNCHANGED exited

\* main, lines 269-284, up to the call of check_and_notify
MainStart(p) ==
    /\ pc[p] = "idle"
    /\ \E stdin \in Stdins(p), search_paths \in ConfigEnvs :
         IF stdin = StdinInvalid                          \* line 273 raises
         THEN /\ Exit(p, 1, 284)
              /\ UNCHANGED hook_input
         ELSE /\ hook_input' = [hook_input EXCEPT ![p] = stdin.value]
              /\ IF NewContextMonitor(search_paths).raised   \* line 276 raises
                 THEN Exit(p, 1, 284)
                 ELSE Goto(p, "check")
    /\ UNCHANGED <<otherVars, transcript, result, usage_info, outFile, marker, notifier_calls>>

\* MarkerExists for a check that never sees the marker
MarkerNeverSeen(m) == FALSE

\* lines 223-224: marker_file.exists()
MarkerExists(m) == m.exists

\* check_and_notify, lines 211-226
CheckMarker(p) ==
    /\ pc[p] = "check"
    /\ IF ~IsDict(hook_input[p]) THEN Exit(p, 1, 266)     \* line 212 raises
       ELSE IF "transcript_path" \notin DOMAIN hook_input[p] THEN Exit(p, 0, 220)
       ELSE IF MarkerExists(marker) THEN Exit(p, 0, 226)
       ELSE Goto(p, "parse")
    /\ UNCHANGED <<otherVars, transcript, result, hook_input, usage_info, outFile, marker, notifier_calls>>

\* ThresholdReached with a strict comparison
ThresholdExceeded(info, config) ==
    info.percentage.num * config.threshold.den
        > config.threshold.num * info.percentage.den * 100

\* line 236: usage_info['percentage'] / 100 >= threshold
ThresholdReached(info, config) ==
    info.percentage.num * config.threshold.den
        >= config.threshold.num * info.percentage.den * 100

\* check_and_notify, lines 229-237
ParseAndCompare(p) ==
    /\ pc[p] = "parse"
    /\ LET info == parse_transcript(Files[hook_input[p].transcript_path], Monitor(p).config) IN
       IF IsNone(info) THEN Exit(p, 0, 232) /\ UNCHANGED usage_info
       ELSE IF ~ThresholdReached(info, Monitor(p).config)
            THEN Exit(p, 0, 262) /\ UNCHANGED usage_info
            ELSE Goto(p, "exists") /\ usage_info' = [usage_info EXCEPT ![p] = info]
    /\ UNCHANGED <<otherVars, transcript, result, hook_input, outFile, marker, notifier_calls>>

\* update_output_file, lines 160-189: the alert block, without its wall-clock time
AlertBlock(session_id, info, config) ==
    [ kind |-> "alert",
      session_id |-> session_id,
      percentage |-> info.percentage,
      total_tokens |-> info.total_tokens,
      max_tokens |-> config.max_context_tokens,
      threshold |-> config.threshold,
      output_filename |-> config.output_file ]

Header == [kind |-> "header"]

\* OutputExists for a writer that always creates the file
OutputNeverExists(f) == FALSE

\* line 193: output_path.exists()
OutputExists(f) == f.exists

\* update_output_file, line 193
CheckOutput(p) ==
    /\ pc[p] = "exists"
    /\ Goto(p, IF OutputExists(outFile) THEN "append" ELSE "header")
    /\ UNCHANGED <<otherVars, transcript, result, hook_input, usage_info, outFile, marker, notifier_calls>>

\* WriteFailed for an update_output_file that lets the OSError through to
\* the except clause of check_and_notify
WriteFailedUncaught(p) == Exit(p, 1, 266)

\* lines 205-207, 240, 262: the except clause of update_output_file returns
\* False, check_and_notify skips the body of the if and returns 0.
WriteFailed(p) == Exit(p, 0, 262)

\* update_output_file, lines 194-196: open(output_path, 'w') truncates; an
\* OSError is caught at line 205, update_output_file returns False and
\* check_and_notify returns 0 (line 262).
WriteHeader(p) ==
    /\ pc[p] = "header"
    /\ \/ /\ outFile' = [exists |-> TRUE, content |-> <<Header>>]
          /\ Goto(p, "append")
       \/ /\ UNCHANGED outFile
          /\ WriteFailed(p)
    /\ UNCHANGED <<otherVars, transcript, result, hook_input, usage_info, marker, notifier_calls>>

\* update_output_file, lines 199-203: open(output_path, 'a')
AppendAlert(p) ==
    /\ pc[p] = "append"
    /\ \/ /\ outFile' = [exists |-> TRUE,
                         content |-> Append(outFile.content,
                                            AlertBlock(hook_input[p].session_id,
                                                       usage_info[p], Monitor(p).config))]
          /\ Goto(p, "marker")
       \/ /\ UNCHANGED outFile
          /\ WriteFailed(p)
    /\ UNCHANGED <<otherVars, transcript, result, hook_input, usage_info, marker, notifier_calls>>

\* check_and_notify, lines 242-243: mkdir and write_text; an OSError is caught
\* at line 264 and check_and_notify returns 1.
WriteMarker(p) ==
    /\ pc[p] = "marker"
    /\ \/ /\ marker' = [exists |-> TRUE, written_by |-> p]
          /\ IF Monitor(p).notifier THEN Goto(p, "notify") ELSE Exit(p, 0, 262)
       \/ /\ UNCHANGED marker
          /\ Exit(p, 1, 266)
    /\ UNCHANGED <<otherVars, transcript, result, hook_input, usage_info, outFile, notifier_calls>>

\* AfterSend treating a failed notification as a failed hook
AfterSendStrict(notification_sent) == IF notification_sent THEN 0 ELSE 1

\* lines 255-262: what check_and_notify returns after Notifier.send
AfterSend(notification_sent) == 0

\* check_and_notify, lines 246-262; Notifier.send returns a boolean
Notify(p) ==
    /\ pc[p] = "notify"
    /\ \E notification_sent \in BOOLEAN :
         /\ notifier_calls' = [notifier_calls EXCEPT
                                 ![p] = IF notification_sent THEN "sent" ELSE "failed"]
         /\ Exit(p, AfterSend(notification_sent), 262)
    /\ UNCHANGED <<otherVars, transcript, result, hook_input, usage_info, outFile, marker>>

Init ==
    /\ transcript = Missing
    /\ result = Unset
    /\ HookIdle
    /\ OthersIdle

Next ==
    \E p \in Procs :
        \/ MainStart(p)
        \/ CheckMarker(p)
        \/ ParseAndCompare(p)
        \/ CheckOutput(p)
        \/ WriteHeader(p)
        \/ AppendAlert(p)
        \/ WriteMarker(p)
        \/ Notify(p)

Spec == Init /\ [][Next]_vars

\* The hook processes whose calls of update_output_file do not overlap.
InUpdate(label) == label \in {"exists", "header", "append"}
NoOverlap(step) == step /\ Cardinality({q \in Procs : InUpdate(pc'[q])}) <= 1
SeqNext ==
    \E p \in Procs :
        \/ NoOverlap(MainStart(p))
        \/ NoOverlap(CheckMarker(p))
        \/ NoOverlap(ParseAndCompare(p))
        \/ NoOverlap(CheckOutput(p))
        \/ NoOverlap(WriteHeader(p))
        \/ NoOverlap(AppendAlert(p))
        \/ NoOverlap(WriteMarker(p))
        \/ NoOverlap(Notify(p))
SeqSpec == Init /\ [][SeqNext]_vars

(***************************************************************************)
(* The desktop monitor, context-monitor-gui.py: ContextMonitorGUI with its *)
(* TranscriptWatcher and SettingsWindow.  Time advances in ticks of half a *)
(* second.                                                                 *)
(***************************************************************************)
DebounceTicks == 1     \* gui line 60: 0.5 seconds

\* DEFAULT_CONFIG of context-monitor-gui.py, lines 34-46
GUI_DEFAULT_CONFIG ==
    [ threshold |-> [num |-> 4, den |-> 5],
      max_context_tokens |-> 200000,
      update_interval |-> 2,
      window_width |-> 450,
      window_height |-> 300,
      always_on_top |-> TRUE,
      notification_enabled |-> TRUE,
      output_file |-> "claude.md",
      instructions |-> "Update with current progress, successes, failures, and handoff notes",
      appearance_mode |-> "dark",
      color_theme |-> "blue" ]

\* ContextMonitorGUI._load_config, lines 483-496: the keys of the file
\* override the defaults as they are; a file that does not load leaves the
\* defaults.
GuiLoadConfig(file) ==
    IF file.exists /\ file.json THEN Update(GUI_DEFAULT_CONFIG, file.value)
    ELSE GUI_DEFAULT_CONFIG

\* lines 644-659: a max_context_tokens of 0 raises ZeroDivisionError
GuiSnapshot(usage, config) ==
    LET total_tokens == TotalTokens(usage)
        max_tokens == config.max_context_tokens
    IN IF max_tokens = 0 THEN Raise
       ELSE Ok([ total_tokens |-> total_tokens,
                 percentage |-> Frac(total_tokens * 100, max_tokens),
                 input_tokens |-> _get(usage, "input_tokens", 0),
                 cache_read |-> _get(usage, "cache_read_input_tokens", 0),
                 cache_creation |-> _get(usage, "cache_creation_input_tokens", 0) ])

\* ContextMonitorGUI._parse_transcript, lines 613-663
_parse_transcript(file, config) ==
    IF file = Missing THEN None                                  \* line 616
    ELSE IF file = Unreadable THEN None                          \* line 663
    ELSE LET entries == ReadEntries(file.lines) IN
         IF entries.raised THEN None
         ELSE LET valid_entries == FilterValid(entries.value) IN
              IF valid_entries.raised THEN None
              ELSE IF valid_entries.value = <<>> THEN None       \* line 638
              ELSE LET latest_entry == LatestEntry(valid_entries.value)
                       usage == _get(_get(latest_entry, "message", EmptyDict),
                                     "usage", EmptyDict)
                       snapshot == GuiSnapshot(usage, config)
                   IN IF snapshot.raised THEN None ELSE snapshot.value

\* lines 688-703
StatusOf(percentage) ==
    IF percentage.num >= 95 * percentage.den THEN "Critical - Clear soon!"
    ELSE IF percentage.num >= 85 * percentage.den THEN "High - Approaching limit"
    ELSE IF percentage.num >= 70 * percentage.den THEN "Moderate"
    ELSE "Normal"

\* f"{percentage:.1f}", line 676: the percentage in tenths, to the nearest
Tenths(percentage) == (percentage.num * 20 + percentage.den) \div (2 * percentage.den)

\* _build_ui, lines 515, 535, 543
InitialLabels ==
    [ percentage |-> 0, tokens |-> [total |-> 0, max |-> 200000],
      status |-> "Initializing..." ]

\* lines 739, 749: update_interval seconds, in ticks
IntervalTicks(config) == 2 * config.update_interval

\* what the file at config_path may hold when the GUI starts
GuiConfigFiles ==
    { ConfigAbsent,
      ConfigMalformed,
      ConfigObject([threshold |-> [num |-> 3, den |-> 2]]),
      ConfigObject([max_context_tokens |-> 0]),
      ConfigObject([threshold |-> [num |-> 1, den |-> 2], max_context_tokens |-> 100000,
                    update_interval |-> 1]) }

\* the k-th entry Claude Code appends to the transcript
Entry(k) == MainEntry(k, [input_tokens |-> 50000 * k])

\* what the monitored transcript may hold, and _parse_transcript on each
\* of them for each max_context_tokens the config may carry, computed once
GuiTranscripts ==
    {Missing} \cup {Readable([k \in 1..n |-> Entry(k)]) : n \in 0..MaxWrites}
ParsedTranscripts ==
    [ file \in GuiTranscripts,
      max_tokens \in {GuiLoadConfig(f).max_context_tokens : f \in GuiConfigFiles}
      |-> _parse_transcript(file, [max_context_tokens |-> max_tokens]) ]

\* _update_display that renders an absent snapshot as zero
RenderedAbsentAsZero(display, file, config) ==
    LET usage == ParsedTranscripts[file, config.max_context_tokens] IN
    IF IsNone(usage)
    THEN [ last_usage |-> None,
           labels |-> [ percentage |-> 0,
                        tokens |-> [total |-> 0, max |-> config.max_context_tokens],
                        status |-> "Normal" ] ]
    ELSE [ last_usage |-> usage,
           labels |-> [ percentage |-> Tenths(usage.percentage),
                        tokens |-> [total |-> usage.total_tokens,
                                    max |-> config.max_context_tokens],
                        status |-> StatusOf(usage.percentage) ] ]

\* ContextMonitorGUI._update_display, lines 665-710: what last_usage and
\* the labels are after the call, display being what they were before
Rendered(display, file, config) ==
    LET usage == ParsedTranscripts[file, config.max_context_tokens] IN
    IF IsNone(usage) THEN display                                \* line 670
    ELSE [ last_usage |-> usage,
           labels |-> [ percentage |-> Tenths(usage.percentage),
                        tokens |-> [total |-> usage.total_tokens,
                                    max |-> config.max_context_tokens],
                        status |-> StatusOf(usage.percentage) ] ]

\* ContextMonitorGUI.__init__, lines 421-462, with a session transcript
\* found: the config is loaded, _find_active_session renders the transcript
\* once, and _start_monitoring starts the observer or, without watchdog,
\* the polling timer.
InitGui ==
    /\ window = "open"
    /\ config_file \in GuiConfigFiles
    /\ gui_config = GuiLoadConfig(config_file)
    /\ transcript \in {Readable(<<>>), Readable(<<Entry(1)>>)}
    /\ \E WATCHDOG_AVAILABLE \in BOOLEAN :
         LET display == Rendered([last_usage |-> None, labels |-> InitialLabels],
                                 transcript, gui_config)
         IN /\ observer = WATCHDOG_AVAILABLE
            /\ polling_active = ~WATCHDOG_AVAILABLE
            /\ last_usage = display.last_usage
            /\ labels = [display.labels EXCEPT
                           !.status = IF WATCHDOG_AVAILABLE THEN "Monitoring (real-time)"
                                      ELSE "Monitoring (polling)"]
    /\ elapsed = DebounceTicks + 1
    /\ events = 0
    /\ after_queue = 0
    /\ poll_wait = IF polling_active THEN IntervalTicks(gui_config) ELSE 0
    /\ result = Unset
    /\ HookIdle
    /\ ConfigIdle
    /\ NotifierIdle

nonGuiVars == <<result, hookVars, cfgVars, ntfVars>>

\* Claude Code appends an entry to the transcript; a running observer
\* queues a modified event for it.
WriteEntry ==
    /\ window = "open"
    /\ transcript.file = "readable"
    /\ Len(transcript.lines) < MaxWrites
    /\ transcript' = Readable(Append(transcript.lines, Entry(Len(transcript.lines) + 1)))
    /\ events' = IF observer THEN events + 1 ELSE events
    /\ UNCHANGED <<window, config_file, gui_config, last_usage, labels, observer,
                   polling_active, elapsed, after_queue, poll_wait, nonGuiVars>>

\* the transcript is deleted
RemoveFile ==
    /\ window = "open"
    /\ transcript.file = "readable"
    /\ transcript' = Missing
    /\ UNCHANGED <<guiVars, nonGuiVars>>

\* TranscriptWatcher.on_modified, lines 56-62, and _on_file_changed, lines
\* 756-759, on the observer's thread
OnModified ==
    /\ observer
    /\ events > 0
    /\ events' = events - 1
    /\ IF elapsed > DebounceTicks
       THEN /\ elapsed' = 0
            /\ after_queue' = after_queue + 1
       ELSE UNCHANGED <<elapsed, after_queue>>
    /\ UNCHANGED <<transcript, window, config_file, gui_config, last_usage, labels,
                   observer, polling_active, poll_wait, nonGuiVars>>

\* the Tk main loop runs an _update_display scheduled by root.after(0, ...)
RunCallback ==
    /\ window = "open"
    /\ after_queue > 0
    /\ after_queue' = after_queue - 1
    /\ LET display == Rendered([last_usage |-> last_usage, labels |-> labels],
                               transcript, gui_config)
       IN last_usage' = display.last_usage /\ labels' = display.labels
    /\ UNCHANGED <<transcript, window, config_file, gui_config, observer,
                   polling_active, elapsed, events, poll_wait, nonGuiVars>>

\* _poll_loop, lines 745-750, when its timer is due
PollLoop ==
    /\ polling_active
    /\ poll_wait = 0
    /\ LET display == Rendered([last_usage |-> last_usage, labels |-> labels],
                               transcript, gui_config)
       IN last_usage' = display.last_usage /\ labels' = display.labels
    /\ poll_wait' = IntervalTicks(gui_config)
    /\ UNCHANGED <<transcript, window, config_file, gui_config, observer,
                   polling_active, elapsed, events, after_queue, nonGuiVars>>

\* half a second passes
Tick ==
    /\ window = "open"
    /\ elapsed' = IF elapsed > DebounceTicks THEN elapsed ELSE elapsed + 1
    /\ poll_wait' = IF poll_wait = 0 THEN 0 ELSE poll_wait - 1
    /\ UNCHANGED <<transcript, window, config_file, gui_config, last_usage, labels,
                   observer, polling_active, events, after_queue, nonGuiVars>>

\* SettingsWindow._on_save, lines 356-393, and _on_settings_saved, lines
\* 571-583: the slider runs from 50 to 100 (lines 215-219); int() of the
\* interval field or the write of the file may raise, and then the except
\* clause of line 392 leaves the GUI's config as it was.
SettingsSave ==
    /\ window = "open"
    /\ \E slider \in {50, 100}, interval \in {0, 1, 2}, written \in BOOLEAN :
         LET config == [gui_config EXCEPT !.threshold = Frac(slider, 100),
                                          !.update_interval = interval]
         IN IF interval = 0 \/ ~written      \* 0 stands for text int() rejects
            THEN UNCHANGED <<config_file, gui_config>>
            ELSE /\ config_file' = ConfigObject(config)
                 /\ gui_config' = config
    /\ UNCHANGED <<transcript, window, last_usage, labels, observer, polling_active,
                   elapsed, events, after_queue, poll_wait, nonGuiVars>>

\* _on_closing, lines 761-768
OnClosing ==
    /\ window = "open"
    /\ window' = "closed"
    /\ observer' = FALSE
    /\ polling_active' = FALSE
    /\ UNCHANGED <<transcript, config_file, gui_config, last_usage, labels, elapsed,
                   events, after_queue, poll_wait, nonGuiVars>>

GuiNext ==
    \/ WriteEntry
    \/ RemoveFile
    \/ OnModified
    \/ RunCallback
    \/ PollLoop
    \/ Tick
    \/ SettingsSave
    \/ OnClosing

GuiSpec == InitGui /\ [][GuiNext]_vars

\* The observer's thread dispatches the events it has queued, the Tk main
\* loop runs the callbacks and timers that are due, and time passes.
GuiFairSpec ==
    /\ GuiSpec
    /\ WF_vars(OnModified)
    /\ WF_vars(RunCallback)
    /\ WF_vars(PollLoop)
    /\ WF_vars(Tick)

(***************************************************************************)
(* The two programs of the repository side by side: a run is a run of the  *)
(* hook processes or a run of the desktop monitor.  They share no state:   *)
(* both only read the transcript, and the monitor reads neither the output *)
(* file nor the marker.                                                    *)
(***************************************************************************)
InitPrograms == Init \/ InitGui
HookStep(step) == window = "none" /\ step
ProgramsNext ==
    \/ \E p \in Procs :
        \/ HookStep(MainStart(p))
        \/ HookStep(CheckMarker(p))
        \/ HookStep(ParseAndCompare(p))
        \/ HookStep(CheckOutput(p))
        \/ HookStep(WriteHeader(p))
        \/ HookStep(AppendAlert(p))
        \/ HookStep(WriteMarker(p))
        \/ HookStep(Notify(p))
    \/ WriteEntry
    \/ RemoveFile
    \/ OnModified
    \/ RunCallback
    \/ PollLoop
    \/ Tick
    \/ SettingsSave
    \/ OnClosing
ProgramsSpec == InitPrograms /\ [][ProgramsNext]_vars

(***************************************************************************)
(* Properties of the hook.                                                 *)
(***************************************************************************)
Stepped(p) == pc'[p] # pc[p]
PathOf(p) == _get(hook_input[p], "transcript_path", "")
AlertOf(p) == AlertBlock(SessionOf(p), usage_info[p], DEFAULT_CONFIG)
Contains(content, x) == \E i \in DOMAIN content : content[i] = x
IsPrefix(s, t) == Len(s) <= Len(t) /\ SubSeq(t, 1, Len(s)) = s

\* C1: once the marker exists no step removes it, and a check_and_notify
\* that reaches its marker check afterwards returns 0 leaving the output
\* file, the marker and the Notifier untouched, whatever its session and
\* transcript.
C1_MarkerIsOneWayLatch ==
    [][ /\ marker.exists => marker'.exists
        /\ \A p \in Procs :
             ( /\ pc[p] = "check" /\ Stepped(p)
               /\ IsDict(hook_input[p])
               /\ marker.exists )
             => /\ pc'[p] = "done"
                /\ exited'[p].code = 0
                /\ outFile' = outFile
                /\ marker' = marker
                /\ notifier_calls' = notifier_calls ]_vars

\* a process given a transcript above the threshold left at the marker
\* check, the marker being another process's
C1_Witness ==
    \E p \in DOMAIN exited :
        /\ exited[p] = [code |-> 0, line |-> 226]
        /\ PathOf(p) = "above"
        /\ marker.exists /\ marker.written_by # p
        /\ notifier_calls[p] = "none"
        /\ ~Contains(outFile.content, AlertBlock(SessionOf(p),
                         parse_transcript(Files.above, DEFAULT_CONFIG), DEFAULT_CONFIG))

\* a process has fired once it has appended its alert block and created
\* the marker; it then calls the Notifier
Fired(p) == pc[p] = "notify" \/ notifier_calls[p] # "none"

\* C2: of the hook processes running on one cwd, overlapping or not, at most
\* one fires.
C2_FiresAtMostOnce == Cardinality({p \in Procs : Fired(p)}) <= 1

\* C3: with no marker and a snapshot, check_and_notify goes on to write the
\* alert exactly when total_tokens / max_context_tokens >= threshold, equality
\* included: 79.9 skips, 80.0 fires; only such a process writes the output
\* file or the marker, and after the marker is written every check skips.
C3_FiresIffThresholdReached ==
    [][ /\ \A p \in Procs :
             (pc[p] = "parse" /\ Stepped(p))
             => LET info == parse_transcript(Files[hook_input[p].transcript_path],
                                             DEFAULT_CONFIG)
                    fires == pc'[p] = "exists"
                IN IF ~IsSnapshot(info) THEN ~fires
                   ELSE /\ fires <=> (info.total_tokens * DEFAULT_CONFIG.threshold.den
                                       >= DEFAULT_CONFIG.threshold.num
                                            * DEFAULT_CONFIG.max_context_tokens)
                        /\ info.percentage = [num |-> 799, den |-> 10] => ~fires
                        /\ info.percentage = [num |-> 80, den |-> 1] => fires
        /\ (outFile' # outFile \/ marker' # marker)
             => \E p \in Procs :
                   /\ Stepped(p)
                   /\ IsSnapshot(usage_info[p])
                   /\ usage_info[p].percentage.num >= 80 * usage_info[p].percentage.den
        /\ \A p \in Procs :
             (pc[p] = "check" /\ Stepped(p) /\ marker.exists) => pc'[p] = "done" ]_vars

\* a process at exactly 80.0% has written its block and the marker, and a
\* second one, above the threshold, has skipped
C3_Witness ==
    \E p \in Procs, q \in DOMAIN exited :
        /\ PathOf(p) = "at"
        /\ IsSnapshot(usage_info[p])
        /\ usage_info[p].percentage = [num |-> 80, den |-> 1]
        /\ marker = [exists |-> TRUE, written_by |-> p]
        /\ Contains(outFile.content, AlertOf(p))
        /\ q # p
        /\ PathOf(q) = "above"
        /\ exited[q] = [code |-> 0, line |-> 226]

\* C9: when calls of update_output_file do not overlap, the header is
\* written only to a file that does not exist, a call that returns True has
\* appended its alert block, and every step leaves the earlier content as a
\* prefix of the new content.
C9_SequentialAppendOnly ==
    [][ /\ IsPrefix(outFile.content, outFile'.content)
        /\ \A p \in Procs :
             /\ (pc[p] = "header" /\ pc'[p] = "append")
                  => ~outFile.exists /\ outFile'.content = <<Header>>
             /\ (pc[p] = "exists" /\ pc'[p] = "header") => ~outFile.exists
             /\ (InUpdate(pc[p]) /\ pc'[p] = "marker")
                  => outFile'.content = Append(outFile.content, AlertOf(p)) ]_vars

\* two dispatches, the second on the file the first left
C9_Witness ==
    \E p, q \in Procs :
        /\ p # q
        /\ IsSnapshot(usage_info[p]) /\ IsSnapshot(usage_info[q])
        /\ outFile.content = <<Header, AlertOf(p), AlertOf(q)>>

\* C10: a Notifier that returns false does not undo or fail the dispatch:
\* the marker and the alert block stay and check_and_notify returns 0.
C10_NotifierFailureTolerated ==
    [][ \A p \in Procs :
          (pc[p] = "notify" /\ Stepped(p))
          => /\ exited'[p].code = 0
             /\ marker.exists /\ marker' = marker
             /\ outFile' = outFile ]_vars

C10_Witness ==
    \E p \in DOMAIN exited :
        /\ notifier_calls[p] = "failed"
        /\ exited[p] = [code |-> 0, line |-> 262]
        /\ marker = [exists |-> TRUE, written_by |-> p]
        /\ Contains(outFile.content, AlertOf(p))

\* C11: a write of the output file that fails, on creating the file or on
\* appending to it, ends update_output_file with False: the process returns
\* from check_and_notify at line 262 and exits 0, with the output file, the
\* marker and the Notifier as they were.
C11_WriteFailureExitsZero ==
    [][ \A p \in Procs :
          (pc[p] \in {"header", "append"} /\ Stepped(p))
          => \/ pc'[p] \in {"append", "marker"}
             \/ /\ pc'[p] = "done"
                /\ exited'[p] = [code |-> 0, line |-> 262]
                /\ outFile' = outFile
                /\ marker' = marker
                /\ notifier_calls' = notifier_calls ]_vars

\* a process over the threshold whose append failed after it had created
\* the file
C11_Witness ==
    \E p \in DOMAIN exited :
        /\ IsSnapshot(usage_info[p])
        /\ exited[p] = [code |-> 0, line |-> 262]
        /\ outFile.content = <<Header>>
        /\ ~marker.exists
        /\ notifier_calls[p] = "none"

\* C12: a hook process exits non-zero only when its stdin did not hold valid
\* JSON; every other failure (config load, transcript read, output write,
\* marker creation, notification) and every run with nothing to do ends
\* with exit code 0.
C12_NonZeroOnlyForInvalidStdin ==
    \A p \in DOMAIN exited : exited[p].code # 0 => hook_input[p] = Unset

(***************************************************************************)
(* Properties of the construction of ContextMonitor.                       *)
(***************************************************************************)
Constructed == monitor # Unset
Existing == {i \in DOMAIN config_files : config_files[i].exists}
FirstExisting == config_files[CHOOSE i \in Existing : \A j \in Existing : i <= j]

\* C13: when one of the four candidate paths exists, ContextMonitor() returns
\* an object, and when the first existing candidate holds a JSON object the
\* config of that object is the defaults overridden by the keys of that
\* candidate alone.
C13_FirstExistingCandidateOverrides ==
    (Constructed /\ Existing # {})
    => /\ ~monitor.raised
       /\ FirstExisting.json
            => monitor.value.config = Update(DEFAULT_CONFIG, FirstExisting.value)

\* C14: when the first existing candidate is malformed, ContextMonitor()
\* returns an object whose config is DEFAULT_CONFIG.
C14_MalformedFallsBackToDefaults ==
    (Constructed /\ Existing # {} /\ ~FirstExisting.json)
    => /\ ~monitor.raised
       /\ monitor.value.config = DEFAULT_CONFIG

\* C20: whatever the overlap of the hook processes, no step removes content
\* from the output file: what the file held before a step is a prefix of
\* what it holds after it, also when two processes both found the file
\* missing and both create it with the header.
C20_OverlappingAppendOnly ==
    [][ \A p \in Procs :
          Stepped(p) => IsPrefix(outFile.content, outFile'.content) ]_vars

(***************************************************************************)
(* Properties of Notifier.send.                                            *)
(***************************************************************************)
HasFallback(cmd) == cmd \in {powershell_paths[1], powershell_paths[2], "notify-send"}
Fallback(cmd) ==
    CASE cmd = powershell_paths[1] -> powershell_paths[2]
      [] cmd = powershell_paths[2] -> powershell_paths[3]
      [] cmd = "notify-send" -> "dbus-send"
TriedAfter(i) == i < Len(attempted) /\ attempted[i + 1] = Fallback(attempted[i])
EndedAs(i, outcome) == commands[attempted[i]] = outcome
BooleanOnlyTrueOnZero ==
    /\ ~sent.raised
    /\ sent.value \in BOOLEAN
    /\ sent.value => \E i \in DOMAIN attempted : EndedAs(i, "zero")

\* C19 as stated: send returns a boolean and raises nothing, True only if a
\* command it ran returned 0, and after a command that is missing or that
\* timed out the next fallback command, if there is one, is run.
C19_SendTriesFallbackAfterTimeout ==
    sent # Unset
    => /\ BooleanOnlyTrueOnZero
       /\ \A i \in DOMAIN attempted :
            ((EndedAs(i, "missing") \/ EndedAs(i, "timeout")) /\ HasFallback(attempted[i]))
            => TriedAfter(i)

\* C19, amended: send returns a boolean and raises nothing, True only if a
\* command it ran returned 0; after a missing command the next fallback
\* command, if there is one, is run; after a timeout the next PowerShell
\* path is run, while a timeout of notify-send, dbus-send or osascript ends
\* send with False and no further command.
C19_SendBooleanNeverRaises ==
    sent # Unset
    => /\ BooleanOnlyTrueOnZero
       /\ \A i \in DOMAIN attempted :
            /\ (EndedAs(i, "missing") /\ HasFallback(attempted[i])) => TriedAfter(i)
            /\ EndedAs(i, "timeout")
                 => IF attempted[i] \in {powershell_paths[1], powershell_paths[2]}
                    THEN TriedAfter(i)
                    ELSE i = Len(attempted) /\ ~sent.value

\* notify-send timed out while dbus-send would have succeeded
C19_Witness ==
    /\ system = "Linux" /\ ~is_wsl
    /\ sent = [raised |-> FALSE, value |-> FALSE]
    /\ commands = [cmd \in {"notify-send", "dbus-send"} |->
                     IF cmd = "notify-send" THEN "timeout" ELSE "zero"]
    /\ attempted = <<"notify-send">>

(***************************************************************************)
(* Properties of the desktop monitor.                                      *)
(***************************************************************************)
\* the number of entries in the transcript, and the number there were in
\* the content the display was last computed from
FileWrites == IF transcript.file = "readable" THEN Len(transcript.lines) ELSE 0
ShownWrites == IF IsNone(last_usage) THEN 0 ELSE last_usage.input_tokens \div 50000

\* C15: with the observer as with the polling timer, every write to the
\* transcript is eventually followed, while the window stays open and the
\* file is there, by a display computed from content holding that write,
\* the last write of a burst included when no other write follows.
C15_EveryWriteEventuallyShown ==
    \A k \in 1..MaxWrites :
        (window = "open" /\ FileWrites >= k /\ gui_config.max_context_tokens > 0)
        ~> (window = "closed" \/ transcript = Missing \/ ShownWrites >= k)

\* C18: the config the monitor holds always has 0 < threshold <= 1 and
\* max_context_tokens > 0, after loading any config file and after any
\* save of the settings.
C18_ConfigWithinRange ==
    window # "none"
    => /\ 0 < gui_config.threshold.num
       /\ gui_config.threshold.num <= gui_config.threshold.den
       /\ gui_config.max_context_tokens > 0

\* C16: when the transcript yields no snapshot nothing follows.  A hook
\* process whose parse_transcript returns None exits 0 at line 232 leaving
\* the output file, the marker and the Notifier as they were; a step of the
\* desktop monitor taken while its transcript yields no snapshot leaves
\* last_usage and the three labels as they were.
C16_AbsentChangesNothing ==
    [][ /\ \A p \in Procs :
             ( /\ pc[p] = "parse" /\ Stepped(p)
               /\ IsNone(parse_transcript(Files[hook_input[p].transcript_path],
                                          DEFAULT_CONFIG)) )
             => /\ exited'[p] = [code |-> 0, line |-> 232]
                /\ outFile' = outFile
                /\ marker' = marker
                /\ notifier_calls' = notifier_calls
        /\ ( /\ window = "open"
             /\ IsNone(_parse_transcript(transcript, gui_config)) )
           => /\ last_usage' = last_usage
              /\ labels' = labels ]_vars

\* the monitor rendered the first entry when it started (the status label
\* still shows what _start_watchdog_monitoring wrote after that), a later
\* event was accepted, the file was removed, and the scheduled
\* _update_display has run: the display still shows the first entry
C16_Witness ==
    /\ window = "open"
    /\ observer
    /\ transcript = Missing
    /\ elapsed <= DebounceTicks
    /\ after_queue = 0
    /\ labels.status = "Monitoring (real-time)"
    /\ ShownWrites = 1
    /\ labels.tokens.total = 50000

(***************************************************************************)
(* Order of the steps of a firing hook process.                            *)
(***************************************************************************)
HasAlertBlock(content) == \E i \in DOMAIN content : content[i].kind = "alert"

\* the order alone: a process comes to write the marker only by the step
\* that appended its alert block, only such a process changes the marker,
\* the Notifier is called only by a process that has written the marker,
\* and a process whose write failed leaves the marker as it was
FiringOrder(p) ==
    /\ (pc'[p] = "marker" /\ Stepped(p))
         => /\ pc[p] = "append"
            /\ outFile'.content = Append(outFile.content, AlertOf(p))
    /\ (marker' # marker /\ Stepped(p)) => pc[p] = "marker"
    /\ (pc'[p] = "notify" /\ Stepped(p)) => pc[p] = "marker" /\ marker'.exists
    /\ notifier_calls'[p] # notifier_calls[p] => pc[p] = "notify" /\ marker.exists
    /\ (pc[p] \in {"header", "append"} /\ pc'[p] = "done") => marker' = marker

\* C21: in a firing process the output file is written, then the marker,
\* then the Notifier is called; a failed write of the output file leaves the
\* marker as it was; and whenever the marker exists the output file holds
\* at least one alert block.
C21_WriteThenMarkerThenNotify ==
    [][ /\ \A p \in Procs : FiringOrder(p)
        /\ marker'.exists => HasAlertBlock(outFile'.content) ]_vars

\* C22: one line that decodes to JSON that is not an object, or to an
\* object whose message is not an object, makes parse_transcript, and the
\* GUI's _parse_transcript, return None for the whole file, whatever valid
\* entries the other lines hold.
C22_NonObjectLineYieldsAbsent ==
    (Returned /\ \E i \in DOMAIN FileLines : NotAnObjectLine(FileLines[i]))
    => /\ IsNone(result)
       /\ IsNone(_parse_transcript(transcript, GUI_DEFAULT_CONFIG))

\* a JSON null between two valid entries
C22_Witness ==
    /\ transcript = Readable(<<MainEntry(1, UsageA), JsonLine(JNull), MainEntry(2, UsageB)>>)
    /\ \A i \in {1, 3} : ValidLine(FileLines[i])
    /\ IsNone(result)

====
